---- MODULE Spec2Model ----
(***************************************************************************)
(* The `test` subcommand of wollok-ts-cli (src/src/commands/test.ts) and   *)
(* the helpers of src/src/utils.ts it calls: parameter validation, the     *)
(* validation gate, target selection, the run loop, the report and the     *)
(* exit code.                                                              *)
(*                                                                         *)
(* A JavaScript string is a sequence of one-character strings.  A value    *)
(* of type `string | undefined` is a sequence of length 0 (undefined) or 1 *)
(* (the string).                                                           *)
(***************************************************************************)
EXTENDS Integers, Sequences, FiniteSets, TLC

VARIABLES
    pc,            \* position of the command's async function
    filter,        \* positional argument: string | undefined
    options,       \* Options record: file, describe, test, skipValidations
    project,       \* what the files of options.project build to
    environment,   \* the built Environment, <<>> while none is built
    problems,      \* result of validate(environment)
    validated,     \* validate(environment): "no" (not called), "returned", "threw"
    filterTest,    \* getTarget's effective filter
    targets,       \* getTarget's result: node ids in order
    cursor,        \* next node of environment.forEach
    successes,     \* successes counter
    failures,      \* failures list (test node ids, in push order)
    reported,      \* how many entries of failures.forEach are done
    events,        \* console lines and interpreter calls, in order
    error,         \* kind of the error caught by the top-level catch
    exitCode,      \* argument of process.exit, 0 while it was not called
    errorStack,    \* failureDescription: e?.stack, string | undefined
    fullStack,     \* failureDescription: the stack kept
    stack          \* failureDescription: the kept stack re-indented

stackVars == <<errorStack, fullStack, stack>>

vars == <<pc, filter, options, project, environment, problems, validated,
          filterTest, targets, cursor, successes, failures, reported,
          events, error, exitCode, errorStack, fullStack, stack>>

----------------------------------------------------------------------------
\* Bounds of the model

MaxProblems == 2
MaxOnly == 2
MaxStackLen == 4

----------------------------------------------------------------------------
\* Strings

Q == "\""
DOT == "."

None == <<>>
Some(s) == <<s>>

IsDefined(v) == Len(v) = 1

\* JavaScript truthiness of a string | undefined: defined and not ''
Truthy(v) == Len(v) = 1 /\ Len(v[1]) > 0

\* String.prototype.replaceAll('"', '')
RECURSIVE StripQuotes(_)
StripQuotes(s) ==
    IF s = <<>> THEN <<>>
    ELSE IF Head(s) = Q THEN StripQuotes(Tail(s))
    ELSE <<Head(s)>> \o StripQuotes(Tail(s))

\* value?.replaceAll('"', '')
sanitize(value) ==
    IF IsDefined(value) THEN Some(StripQuotes(value[1])) ELSE None

\* String.prototype.includes
Includes(s, sub) ==
    \E k \in 0..(Len(s) - Len(sub)) : SubSeq(s, k + 1, k + Len(sub)) = sub

\* Array.prototype.join('.') of an array of strings
RECURSIVE JoinDot(_)
JoinDot(strs) ==
    IF strs = <<>> THEN <<>>
    ELSE IF Len(strs) = 1 THEN strs[1]
    ELSE strs[1] \o <<DOT>> \o JoinDot(Tail(strs))

----------------------------------------------------------------------------
\* Environments: the nodes in the order environment.forEach visits them
\* (a node before its children), id = position.  parent = 0 for the root.

Node(kind, parent, name, fqn) ==
    [kind |-> kind, parent |-> parent, name |-> name,
     fullyQualifiedName |-> fqn, isOnly |-> FALSE]

\* package a { describe "b" { test "c"  test "A" }  object c }
\* package b { test "c" }
EnvSuite ==
    << Node("Environment", 0, <<>>, <<>>),
       Node("Package", 1, <<"a">>, <<"a">>),
       Node("Describe", 2, <<Q, "b", Q>>, <<"a", DOT, Q, "b", Q>>),
       Node("Test", 3, <<Q, "c", Q>>,
            <<"a", DOT, Q, "b", Q, DOT, Q, "c", Q>>),
       Node("Body", 4, <<>>, <<>>),
       Node("Test", 3, <<Q, "A", Q>>,
            <<"a", DOT, Q, "b", Q, DOT, Q, "A", Q>>),
       Node("Body", 6, <<>>, <<>>),
       Node("Singleton", 2, <<"c">>, <<"a", DOT, "c">>),
       Node("Package", 1, <<"b">>, <<"b">>),
       Node("Test", 9, <<Q, "c", Q>>, <<"b", DOT, Q, "c", Q>>),
       Node("Body", 10, <<>>, <<>>) >>

\* package c { object a }
EnvNoTests ==
    << Node("Environment", 0, <<>>, <<>>),
       Node("Package", 1, <<"c">>, <<"c">>),
       Node("Singleton", 2, <<"a">>, <<"c", DOT, "a">>) >>

\* package A { test "a" }
EnvSingle ==
    << Node("Environment", 0, <<>>, <<>>),
       Node("Package", 1, <<"A">>, <<"A">>),
       Node("Test", 2, <<Q, "a", Q>>, <<"A", DOT, Q, "a", Q>>),
       Node("Body", 3, <<>>, <<>>) >>

Catalog == {EnvSuite, EnvNoTests, EnvSingle}

\* node.is(Test), node.is(Entity): Test is one of the Entity kinds
IsTest(node) == node.kind = "Test"
IsEntity(node) ==
    node.kind \in {"Package", "Describe", "Test", "Singleton"}

Tests(env) == {n \in 1..Len(env) : IsTest(env[n])}

\* the environment with the tests of `only` flagged
WithOnly(env, only) ==
    [n \in 1..Len(env) |-> [env[n] EXCEPT !.isOnly = (n \in only)]]

Environments ==
    UNION { { WithOnly(env, only) :
                only \in {o \in SUBSET Tests(env) : Cardinality(o) <= MaxOnly} } :
            env \in Catalog }

\* node.descendants.includes(m)
RECURSIVE IsDescendant(_, _, _)
IsDescendant(env, m, n) ==
    /\ env[m].parent # 0
    /\ \/ env[m].parent = n
       \/ IsDescendant(env, env[m].parent, n)

----------------------------------------------------------------------------
\* Inputs of the command

FilterValues ==
    { None, Some(<<>>), Some(<<"a">>), Some(<<Q, "b", Q>>),
      Some(<<"a", DOT, "b">>), Some(<<"A">>), Some(<<"b", DOT, "c">>) }
FileValues == { None, Some(<<>>), Some(<<"a">>) }
DescribeValues == { None, Some(<<"b">>), Some(<<Q, "b", Q>>) }
TestValues == { None, Some(<<"c">>), Some(<<Q, "A", Q>>) }

OptionsValues ==
    [file : FileValues, describe : DescribeValues, test : TestValues,
     skipValidations : BOOLEAN]

Levels == {"info", "warning", "error"}
ProblemLists == UNION {[1..k -> Levels] : k \in 0..MaxProblems}

----------------------------------------------------------------------------
\* src/src/commands/test.ts

\* validateParameters that forgets describe and test
validateParametersFileOnly(f, opts) ==
    Truthy(f) /\ Truthy(opts.file)

\* whether validateParameters throws
validateParameters(f, opts) ==
    Truthy(f) /\ (Truthy(opts.file) \/ Truthy(opts.describe) \/ Truthy(opts.test))

\* the join without .filter(Boolean): an unset option joins as ''
fqnOfAllParameters(opts) ==
    LET all == <<opts.file, opts.describe, opts.test>>
    IN  JoinDot([k \in 1..3 |-> IF IsDefined(all[k]) THEN all[k][1] ELSE <<>>])

fqnByOptionalParameters(opts) ==
    LET given == SelectSeq(<<opts.file, opts.describe, opts.test>>, Truthy)
    IN  JoinDot([k \in 1..Len(given) |-> given[k][1]])

\* sanitize(filter) ?? fqnByOptionalParameters ?? ''
effectiveFilter(f, opts) ==
    IF IsDefined(sanitize(f)) THEN sanitize(f)[1]
    ELSE fqnByOptionalParameters(opts)

testMatches(flt, test) ==
    Len(flt) = 0 \/ Includes(sanitize(Some(test.fullyQualifiedName))[1], flt)

\* ids 1..n in increasing order
Ids(n) == [k \in 1..n |-> k]

\* getTarget that applies the filter to the only-flagged tests as well
getTargetFilteringOnly(env, f, opts) ==
    LET isTest(n) == IsTest(env[n])
        possibleTargets == SelectSeq(Ids(Len(env)), isTest)
        isOnly(n) == env[n].isOnly
        onlyTargets == SelectSeq(possibleTargets, isOnly)
        matches(n) == testMatches(effectiveFilter(f, opts), env[n])
        onlyMatching == SelectSeq(onlyTargets, matches)
    IN  IF onlyTargets # <<>>
        THEN IF onlyMatching # <<>> THEN <<Head(onlyMatching)>> ELSE <<>>
        ELSE SelectSeq(possibleTargets, matches)

getTarget(env, f, opts) ==
    LET isTest(n) == IsTest(env[n])
        possibleTargets == SelectSeq(Ids(Len(env)), isTest)
        isOnly(n) == env[n].isOnly
        onlyTargets == SelectSeq(possibleTargets, isOnly)
        matches(n) == testMatches(effectiveFilter(f, opts), env[n])
    IN  IF onlyTargets # <<>> THEN <<Head(onlyTargets)>>
        ELSE SelectSeq(possibleTargets, matches)

----------------------------------------------------------------------------
\* The command: export default async function (filter, options)

Event(type, node) == [type |-> type, node |-> node]

Init ==
    /\ pc = "validateParameters"
    /\ filter \in FilterValues
    /\ options \in OptionsValues
    /\ project \in Environments
    /\ environment = <<>>
    /\ problems = <<>>
    /\ validated = "no"
    /\ filterTest = <<>>
    /\ targets = <<>>
    /\ cursor = 0
    /\ successes = 0
    /\ failures = <<>>
    /\ reported = 0
    /\ events = <<>>
    /\ error = "none"
    /\ exitCode = 0
    /\ errorStack = None
    /\ fullStack = <<>>
    /\ stack = <<>>

\* validateParameters(filter, options), and the logger.info that follows
ValidateParameters ==
    /\ pc = "validateParameters"
    /\ IF validateParameters(filter, options)
       THEN /\ error' = "configuration"
            /\ pc' = "handleError"
       ELSE /\ error' = error
            /\ pc' = "build"
    /\ UNCHANGED stackVars
    /\ UNCHANGED <<filter, options, project, environment, problems,
                   validated, filterTest, targets, cursor, successes,
                   failures, reported, events, exitCode>>

\* await buildEnvironmentForProject(project): reading a file or
\* buildEnvironment may throw
BuildEnvironmentForProject ==
    /\ pc = "build"
    /\ \E built \in BOOLEAN :
          IF built
          THEN /\ environment' = project
               /\ error' = error
               /\ pc' = "validate"
          ELSE /\ environment' = environment
               /\ error' = "build"
               /\ pc' = "handleError"
    /\ UNCHANGED stackVars
    /\ UNCHANGED <<filter, options, project, problems, validated,
                   filterTest, targets, cursor, successes, failures,
                   reported, events, exitCode>>

\* problems.forEach(problem => logger.info(problemDescription(problem)))
ProblemLines(ps) == [k \in 1..Len(ps) |-> Event(ps[k], 0)]

\* a gate that blocks on warnings as well
AbortsRunOnWarnings(ps) ==
    Len(ps) # 0 /\ \E k \in 1..Len(ps) : ps[k] # "info"

\* whether validateEnvironment throws once validate returned ps
AbortsRun(ps) ==
    Len(ps) # 0 /\ \E k \in 1..Len(ps) : ps[k] = "error"

\* validateEnvironment(environment, skipValidations)
ValidateEnvironment ==
    /\ pc = "validate"
    /\ IF options.skipValidations
       THEN /\ pc' = "getTarget"
            /\ UNCHANGED <<problems, validated, events, error>>
       ELSE \/ \* validate(environment) throws
               /\ validated' = "threw"
               /\ error' = "validation"
               /\ pc' = "handleError"
               /\ UNCHANGED <<problems, events>>
            \/ \E ps \in ProblemLists :
                     /\ validated' = "returned"
                     /\ problems' = ps
                     /\ events' = events \o ProblemLines(ps) \o
                           (IF Len(ps) = 0
                            THEN <<Event("noProblems", 0)>> ELSE <<>>)
                     /\ IF AbortsRun(ps)
                        THEN error' = "validation" /\ pc' = "handleError"
                        ELSE error' = error /\ pc' = "getTarget"
    /\ UNCHANGED stackVars
    /\ UNCHANGED <<filter, options, project, environment, filterTest,
                   targets, cursor, successes, failures, reported, exitCode>>

\* const targets = getTarget(environment, filter, options)
GetTarget ==
    /\ pc = "getTarget"
    /\ filterTest' = effectiveFilter(filter, options)
    /\ targets' = getTarget(environment, filter, options)
    /\ pc' = "interpret"
    /\ UNCHANGED stackVars
    /\ UNCHANGED <<filter, options, project, environment, problems,
                   validated, cursor, successes, failures, reported,
                   events, error, exitCode>>

\* const interpreter = interpret(environment, natives): may throw
Interpret ==
    /\ pc = "interpret"
    /\ \E ok \in BOOLEAN :
          IF ok
          THEN /\ cursor' = 1
               /\ error' = error
               /\ pc' = "forEach"
          ELSE /\ cursor' = cursor
               /\ error' = "unexpected"
               /\ pc' = "handleError"
    /\ UNCHANGED stackVars
    /\ UNCHANGED <<filter, options, project, environment, problems,
                   validated, filterTest, targets, successes, failures,
                   reported, events, exitCode>>

\* targets.includes(node)
IsTarget(n) == \E k \in 1..Len(targets) : targets[k] = n

\* targets.some(target => node.descendants.includes(target))
ContainsTarget(n) ==
    \E k \in 1..Len(targets) : IsDescendant(environment, targets[k], n)

Visiting == pc = "forEach" /\ cursor <= Len(environment)

\* when(Test): a target whose interpreter.fork().exec(node) returns
VisitTestSuccess ==
    /\ Visiting
    /\ IsTest(environment[cursor]) /\ IsTarget(cursor)
    /\ events' = events \o <<Event("exec", cursor), Event("success", cursor)>>
    /\ successes' = successes + 1
    /\ cursor' = cursor + 1
    /\ UNCHANGED stackVars
    /\ UNCHANGED <<pc, filter, options, project, environment, problems,
                   validated, filterTest, targets, failures, reported,
                   error, exitCode>>

\* the throw of exec(node) left to the top-level catch
VisitTestFailurePropagating ==
    /\ Visiting
    /\ IsTest(environment[cursor]) /\ IsTarget(cursor)
    /\ events' = Append(events, Event("exec", cursor))
    /\ error' = "unexpected"
    /\ pc' = "handleError"
    /\ UNCHANGED stackVars
    /\ UNCHANGED <<filter, options, project, environment, problems,
                   validated, filterTest, targets, cursor, successes,
                   failures, reported, exitCode>>

\* the failure's stack logged in the catch, next to the progress line
VisitTestFailureWithDetail ==
    /\ Visiting
    /\ IsTest(environment[cursor]) /\ IsTarget(cursor)
    /\ events' = events \o <<Event("exec", cursor), Event("failure", cursor),
                              Event("detail", cursor)>>
    /\ failures' = Append(failures, cursor)
    /\ reported' = reported + 1
    /\ cursor' = cursor + 1
    /\ UNCHANGED stackVars
    /\ UNCHANGED <<pc, filter, options, project, environment, problems,
                   validated, filterTest, targets, successes, error,
                   exitCode>>

\* when(Test): a target whose interpreter.fork().exec(node) throws
VisitTestFailure ==
    /\ Visiting
    /\ IsTest(environment[cursor]) /\ IsTarget(cursor)
    /\ events' = events \o <<Event("exec", cursor), Event("failure", cursor)>>
    /\ failures' = Append(failures, cursor)
    /\ cursor' = cursor + 1
    /\ UNCHANGED stackVars
    /\ UNCHANGED <<pc, filter, options, project, environment, problems,
                   validated, filterTest, targets, successes, reported,
                   error, exitCode>>

\* when(Test): a test that is no target
VisitTestSkipped ==
    /\ Visiting
    /\ IsTest(environment[cursor]) /\ ~IsTarget(cursor)
    /\ cursor' = cursor + 1
    /\ UNCHANGED stackVars
    /\ UNCHANGED <<pc, filter, options, project, environment, problems,
                   validated, filterTest, targets, successes, failures,
                   reported, events, error, exitCode>>

\* a header only for the parent of a target
VisitEntityOfChildren ==
    /\ Visiting
    /\ ~IsTest(environment[cursor]) /\ IsEntity(environment[cursor])
    /\ events' = IF \E k \in 1..Len(targets) :
                        environment[targets[k]].parent = cursor
                 THEN Append(events, Event("header", cursor))
                 ELSE events
    /\ cursor' = cursor + 1
    /\ UNCHANGED stackVars
    /\ UNCHANGED <<pc, filter, options, project, environment, problems,
                   validated, filterTest, targets, successes, failures,
                   reported, error, exitCode>>

\* when(Entity): reached by the entities that are no Test
VisitEntity ==
    /\ Visiting
    /\ ~IsTest(environment[cursor]) /\ IsEntity(environment[cursor])
    /\ events' = IF ContainsTarget(cursor)
                 THEN Append(events, Event("header", cursor))
                 ELSE events
    /\ cursor' = cursor + 1
    /\ UNCHANGED stackVars
    /\ UNCHANGED <<pc, filter, options, project, environment, problems,
                   validated, filterTest, targets, successes, failures,
                   reported, error, exitCode>>

\* when(Node): every other node
VisitNode ==
    /\ Visiting
    /\ ~IsTest(environment[cursor]) /\ ~IsEntity(environment[cursor])
    /\ cursor' = cursor + 1
    /\ UNCHANGED stackVars
    /\ UNCHANGED <<pc, filter, options, project, environment, problems,
                   validated, filterTest, targets, successes, failures,
                   reported, events, error, exitCode>>

\* environment.forEach returned: log()
EndForEach ==
    /\ pc = "forEach" /\ cursor > Len(environment)
    /\ pc' = "failures"
    /\ UNCHANGED stackVars
    /\ UNCHANGED <<filter, options, project, environment, problems,
                   validated, filterTest, targets, cursor, successes,
                   failures, reported, events, error, exitCode>>

\* failures.forEach(([test, error]) => { log(); logger.error(...) })
ReportFailure ==
    /\ pc = "failures" /\ reported < Len(failures)
    /\ events' = Append(events, Event("detail", failures[reported + 1]))
    /\ reported' = reported + 1
    /\ UNCHANGED stackVars
    /\ UNCHANGED <<pc, filter, options, project, environment, problems,
                   validated, filterTest, targets, cursor, successes,
                   failures, error, exitCode>>

\* the summary line without the exit
SummaryWithoutExit ==
    /\ pc = "failures" /\ reported = Len(failures)
    /\ events' = Append(events, Event("summary", 0))
    /\ pc' = "returned"
    /\ UNCHANGED stackVars
    /\ UNCHANGED <<filter, options, project, environment, problems,
                   validated, filterTest, targets, cursor, successes,
                   failures, reported, error, exitCode>>

\* the summary line, then if (failures.length) process.exit(2)
Summary ==
    /\ pc = "failures" /\ reported = Len(failures)
    /\ events' = Append(events, Event("summary", 0))
    /\ IF Len(failures) # 0
       THEN exitCode' = 2 /\ pc' = "exited"
       ELSE exitCode' = exitCode /\ pc' = "returned"
    /\ UNCHANGED stackVars
    /\ UNCHANGED <<filter, options, project, environment, problems,
                   validated, filterTest, targets, cursor, successes,
                   failures, reported, error>>

\* catch (error) { handleError(error); return process.exit(1) }
HandleError ==
    /\ pc = "handleError"
    /\ events' = Append(events, Event("unexpectedError", 0))
    /\ exitCode' = 1
    /\ pc' = "exited"
    /\ UNCHANGED stackVars
    /\ UNCHANGED <<filter, options, project, environment, problems,
                   validated, filterTest, targets, cursor, successes,
                   failures, reported, error>>

Next ==
    \/ ValidateParameters
    \/ BuildEnvironmentForProject
    \/ ValidateEnvironment
    \/ GetTarget
    \/ Interpret
    \/ VisitTestSuccess
    \/ VisitTestFailure
    \/ VisitTestSkipped
    \/ VisitEntity
    \/ VisitNode
    \/ EndForEach
    \/ ReportFailure
    \/ Summary
    \/ HandleError

Spec == Init /\ [][Next]_vars

TypeOK ==
    /\ pc \in {"validateParameters", "build", "validate", "getTarget",
               "interpret", "forEach", "failures", "handleError",
               "exited", "returned"}
    /\ exitCode \in {0, 1, 2}

----------------------------------------------------------------------------
\* src/src/utils.ts: failureDescription(description, e)

SP == " "
NL == "\n"
TAB == "\t"

\* WOLLOK_EXTRA_STACK_TRACE_HEADER of wollok-ts, shortened to two characters
WOLLOK_EXTRA_STACK_TRACE_HEADER == <<"D", "T">>

StackChars == {"a", "D", "T", SP, NL, TAB}
Stacks == UNION {[1..k -> StackChars] : k \in 0..MaxStackLen}

Min(x, y) == IF x < y THEN x ELSE y
Max(x, y) == IF x > y THEN x ELSE y

\* String.prototype.indexOf: 0-based index of the first occurrence, or -1
IndexOf(s, sub) ==
    LET found == {k \in 0..(Len(s) - Len(sub)) :
                     SubSeq(s, k + 1, k + Len(sub)) = sub}
    IN  IF found = {} THEN -1
        ELSE CHOOSE k \in found : \A j \in found : k <= j

\* String.prototype.slice(0, end): a negative end counts from the end
SliceFromStart(s, end) ==
    LET to == IF end < 0 THEN Max(Len(s) + end, 0) ELSE Min(end, Len(s))
    IN  SubSeq(s, 1, to)

\* String.prototype.replaceAll(pattern, replacement), pattern not empty
RECURSIVE ReplaceAll(_, _, _)
ReplaceAll(s, pattern, replacement) ==
    IF Len(s) < Len(pattern) THEN s
    ELSE IF SubSeq(s, 1, Len(pattern)) = pattern
         THEN replacement \o
              ReplaceAll(SubSeq(s, Len(pattern) + 1, Len(s)),
                         pattern, replacement)
         ELSE <<Head(s)>> \o ReplaceAll(Tail(s), pattern, replacement)

\* e?.stack?.slice(0, indexOfTsStack ?? -1) ?? ''
FullStack(st) ==
    IF IsDefined(st)
    THEN SliceFromStart(st[1], IndexOf(st[1], WOLLOK_EXTRA_STACK_TRACE_HEADER))
    ELSE <<>>

\* the replaceAll chain and .split('\n').join('\n  ')
Reindent(s) ==
    ReplaceAll(
        ReplaceAll(
            ReplaceAll(ReplaceAll(s, <<TAB>>, <<SP, SP>>),
                       <<SP, SP, SP, SP, SP>>, <<SP, SP>>),
            <<SP, SP, SP, SP>>, <<SP, SP>>),
        <<NL>>, <<NL, SP, SP>>)

\* one call of failureDescription, e?.stack drawn from Stacks or undefined
InitStack ==
    /\ pc = "failureDescription"
    /\ errorStack \in {None} \cup {Some(st) : st \in Stacks}
    /\ fullStack = <<>>
    /\ stack = <<>>
    /\ filter = None
    /\ options = [file |-> None, describe |-> None, test |-> None,
                  skipValidations |-> FALSE]
    /\ project = EnvNoTests
    /\ environment = <<>>
    /\ problems = <<>>
    /\ validated = "no"
    /\ filterTest = <<>>
    /\ targets = <<>>
    /\ cursor = 0
    /\ successes = 0
    /\ failures = <<>>
    /\ reported = 0
    /\ events = <<>>
    /\ error = "none"
    /\ exitCode = 0

FailureDescription ==
    /\ pc = "failureDescription"
    /\ fullStack' = FullStack(errorStack)
    /\ stack' = Reindent(FullStack(errorStack))
    /\ pc' = "described"
    /\ UNCHANGED <<filter, options, project, environment, problems,
                   validated, filterTest, targets, cursor, successes,
                   failures, reported, events, error, exitCode, errorStack>>

NextStack == FailureDescription

SpecStack == InitStack /\ [][NextStack]_vars

----------------------------------------------------------------------------
\* Claims

OnlyTests(env) == {n \in Tests(env) : env[n].isOnly}

\* C1: whenever some test of the environment is flagged only, getTarget
\* returns exactly one test, that test is flagged only, and every filter
\* and every file/describe/test give that same result.
C1_OnlyOverridesFilter ==
    (pc = "interpret" /\ OnlyTests(environment) # {}) =>
        /\ Len(targets) = 1
        /\ targets[1] \in OnlyTests(environment)
        /\ \A f \in FilterValues, o \in OptionsValues :
              getTarget(environment, f, o) = targets

\* two tests are flagged only and the filter given matches neither
C1_Witness ==
    /\ pc = "interpret"
    /\ Cardinality(OnlyTests(environment)) = 2
    /\ Truthy(filter)
    /\ \A n \in OnlyTests(environment) :
          ~Includes(StripQuotes(environment[n].fullyQualifiedName),
                    StripQuotes(filter[1]))
    /\ Len(targets) = 1

ConflictingParameters ==
    /\ filter # None /\ filter # Some(<<>>)
    /\ \E v \in {options.file, options.describe, options.test} :
          v # None /\ v # Some(<<>>)

ExecutedTests == {k \in 1..Len(events) : events[k].type = "exec"}

\* C2: with a non-empty filter and file, describe or test set (given a
\* non-empty value, as the code and the claims count an option as set) the
\* command fails with a configuration error: no environment is ever built,
\* the validator is not called, no test is executed, and the process exits
\* with code 1.
C2_ConflictIsConfigurationError ==
    ConflictingParameters =>
        /\ environment = <<>>
        /\ validated = "no"
        /\ ExecutedTests = {}
        /\ pc \in {"validateParameters", "handleError", "exited"}
        /\ pc # "validateParameters" => error = "configuration"
        /\ pc = "exited" => exitCode = 1

\* a filter together with describe alone, after the exit
C2_Witness ==
    /\ ConflictingParameters
    /\ options.file = None /\ options.test = None
    /\ pc = "exited" /\ exitCode = 1

NoOnly == OnlyTests(environment) = {}

\* the filter of the claims: the positional one when given, else the
\* non-empty options joined with '.'
Segment(v) == IF v # None THEN v[1] ELSE <<>>
Dotted(a, b) == IF a # <<>> /\ b # <<>> THEN a \o <<DOT>> \o b ELSE a \o b
ComposedFilter ==
    Dotted(Dotted(Segment(options.file), Segment(options.describe)),
           Segment(options.test))
StatedFilter == IF filter # None THEN filter[1] ELSE ComposedFilter

\* C3: without an only-flagged test, the targets are the tests whose
\* quote-stripped fully-qualified name contains the quote-stripped
\* effective filter, in traversal order.
C3_SanitizedSubstringSelection ==
    (pc = "interpret" /\ NoOnly) =>
        LET selected(n) ==
                /\ IsTest(environment[n])
                /\ Includes(StripQuotes(environment[n].fullyQualifiedName),
                            StripQuotes(StatedFilter))
        IN  targets = SelectSeq(Ids(Len(environment)), selected)

\* C4: stripping the double quotes from the filter and from file, describe
\* and test does not change the tests selected.
C4_QuoteInsensitive ==
    pc = "interpret" =>
        targets = getTarget(environment, sanitize(filter),
                            [options EXCEPT !.file = sanitize(@),
                                            !.describe = sanitize(@),
                                            !.test = sanitize(@)])

\* C5: with the filter absent, the effective filter is the non-empty
\* values of file, describe, test joined with '.' in that order, with no
\* segment and no separator for an unset option; file a and describe b
\* give a.b.
C5_ComposedFilter ==
    (pc = "interpret" /\ filter = None) =>
        /\ filterTest = ComposedFilter
        /\ (options.file = Some(<<"a">>) /\ options.describe = Some(<<"b">>)
              /\ options.test = None) => filterTest = <<"a", DOT, "b">>
        /\ (options.file = Some(<<>>) /\ options.describe = None
              /\ options.test = Some(<<"c">>)) => filterTest = <<"c">>

\* file and test given, describe unset
C5_Witness ==
    /\ pc = "interpret" /\ filter = None
    /\ options.file = Some(<<"a">>) /\ options.describe = None
    /\ options.test = Some(<<"c">>)
    /\ filterTest = <<"a", DOT, "c">>

\* positions of the events of the given types about node n
At(types, n) ==
    {k \in 1..Len(events) : events[k].type \in types /\ events[k].node = n}
Positions(types) == {k \in 1..Len(events) : events[k].type \in types}
ExecCount(n) == Cardinality(At({"exec"}, n))
HeaderCount(n) == Cardinality(At({"header"}, n))
Progress == {"success", "failure"}

TargetSet == {targets[k] : k \in 1..Len(targets)}
Traversing == pc = "forEach"
RunEnded == pc \in {"exited", "returned"} /\ cursor >= 1

\* C6: every target is executed exactly once and no other node is
\* executed, whichever targets throw; a throw does not stop the traversal,
\* and once the run has ended successes + failures = number of targets.
C6_EveryTargetRunsOnce ==
    /\ Traversing =>
          /\ \A n \in 1..Len(environment) :
                ExecCount(n) = IF n \in TargetSet /\ n < cursor THEN 1 ELSE 0
          /\ successes + Len(failures)
                = Cardinality({n \in TargetSet : n < cursor})
          /\ error = "none"
    /\ RunEnded =>
          /\ \A n \in 1..Len(environment) :
                ExecCount(n) = IF n \in TargetSet THEN 1 ELSE 0
          /\ successes + Len(failures) = Len(targets)
          /\ Cardinality(TargetSet) = Len(targets)

\* the first of three targets threw and the two after it passed
C6_Witness ==
    /\ RunEnded
    /\ Len(targets) = 3
    /\ failures = <<targets[1]>>
    /\ successes = 2
    /\ \A k \in 1..3 : ExecCount(targets[k]) = 1

HasErrorLevel == \E k \in 1..Len(problems) : problems[k] = "error"
GatePassed == environment # <<>> /\ pc # "validate"

\* C7: with skipValidations false, an error-level problem means that no
\* test is ever executed and the exit code is 1, and problems of level
\* warning or info (or none) do not stop the run; with skipValidations
\* true the validator is not called and the run is not stopped.
C7_ValidationGate ==
    GatePassed =>
        IF options.skipValidations
        THEN validated = "no" /\ problems = <<>> /\ error # "validation"
        ELSE /\ validated # "no"
             /\ HasErrorLevel =>
                   /\ error = "validation"
                   /\ ExecutedTests = {} /\ targets = <<>> /\ cursor = 0
                   /\ pc \in {"handleError", "exited"}
                   /\ pc = "exited" => exitCode = 1
             /\ (validated = "returned" /\ ~HasErrorLevel) =>
                   error # "validation"

\* an error-level problem after a warning stopped the run before any test
C7_Witness ==
    /\ ~options.skipValidations
    /\ problems = <<"warning", "error">>
    /\ Tests(environment) # {} /\ ExecutedTests = {}
    /\ pc = "exited" /\ exitCode = 1

SummaryReached == \E k \in 1..Len(events) : events[k].type = "summary"

\* C8: at the end of the process the exit code is 2 exactly when the
\* summary was reached with a recorded failure, 1 exactly when an error
\* reached the top-level catch, 0 (process.exit not called) exactly when
\* the summary was reached without a failure; a failed test alone never
\* gives 1.
C8_ExitCode ==
    pc \in {"exited", "returned"} =>
        /\ exitCode = 2 <=> (SummaryReached /\ Len(failures) > 0)
        /\ exitCode = 1 <=> error # "none"
        /\ exitCode = 0 <=> (SummaryReached /\ Len(failures) = 0)
        /\ exitCode = 0 <=> pc = "returned"
        /\ error # "none" => ~SummaryReached
        /\ (Len(failures) > 0) => exitCode = 2

\* one test passed, one failed: exit code 2
C8_Witness ==
    /\ pc = "exited" /\ exitCode = 2
    /\ successes = 1 /\ Len(failures) = 1

Containers(env) == {n \in 1..Len(env) : IsEntity(env[n]) /\ ~IsTest(env[n])}
HoldsTarget(n) == \E t \in TargetSet : IsDescendant(environment, t, n)

\* C9: a header line is emitted for a container entity exactly when it
\* transitively contains a target; no other node gets a header, and a
\* container is never executed.
C9_HeaderIffContainsTarget ==
    /\ \A k \in Positions({"header"}) :
          /\ events[k].node \in Containers(environment)
          /\ HoldsTarget(events[k].node)
    /\ \A k \in Positions({"exec"}) : IsTest(environment[events[k].node])
    /\ (Traversing \/ RunEnded) =>
          \A n \in Containers(environment) :
              HeaderCount(n)
                  = IF HoldsTarget(n) /\ n < cursor THEN 1 ELSE 0

\* a package announced for a target two levels down, next to a package
\* and an object without a header
C9_Witness ==
    /\ RunEnded
    /\ \E n \in Containers(environment), t \in TargetSet :
          /\ environment[t].parent # n /\ IsDescendant(environment, t, n)
          /\ HeaderCount(n) = 1
    /\ \E n \in Containers(environment) :
          environment[n].kind = "Package" /\ HeaderCount(n) = 0
    /\ \E n \in Containers(environment) :
          environment[n].kind = "Singleton" /\ HeaderCount(n) = 0

NodesOf(types) ==
    LET chosen(e) == e.type \in types
        lines == SelectSeq(events, chosen)
    IN  [k \in 1..Len(lines) |-> lines[k].node]

\* C10: headers and progress lines come in traversal order, a container's
\* header before the progress line of each target it contains, each
\* progress line right after the execution of its test; the failure
\* details come after the whole traversal, in the order the failures
\* occurred, then the one summary line, then the end of the process.
C10_EventOrder ==
    /\ \A p, q \in Positions(Progress \cup {"header"}) :
          p < q => events[p].node < events[q].node
    /\ \A q \in Positions(Progress) :
          \A c \in Containers(environment) :
              IsDescendant(environment, events[q].node, c) =>
                  \E p \in At({"header"}, c) : p < q
    /\ \A p \in Positions({"exec"}) :
          /\ p < Len(events)
          /\ events[p + 1].type \in Progress
          /\ events[p + 1].node = events[p].node
    /\ \A q \in Positions(Progress) :
          q > 1 /\ events[q - 1] = Event("exec", events[q].node)
    /\ \A p \in Positions({"detail"}) :
          /\ pc \in {"failures", "exited", "returned"}
          /\ \A q \in Positions(Progress \cup {"header", "exec"}) : q < p
    /\ NodesOf({"failure"}) = failures
    /\ NodesOf({"detail"}) = SubSeq(failures, 1, reported)
    /\ \A p \in Positions({"summary"}) :
          /\ p = Len(events)
          /\ Cardinality(Positions({"summary"})) = 1
          /\ reported = Len(failures)
          /\ pc \in {"exited", "returned"}
    /\ (RunEnded /\ error = "none") => Positions({"summary"}) # {}

\* two failures around a success, reported in that order before the
\* summary
C10_Witness ==
    /\ pc = "exited"
    /\ Len(failures) = 2 /\ successes = 1
    /\ NodesOf({"detail"}) = failures
    /\ events[Len(events)].type = "summary"

MarkerAt(s, k) ==
    /\ k + Len(WOLLOK_EXTRA_STACK_TRACE_HEADER) <= Len(s)
    /\ \A j \in 1..Len(WOLLOK_EXTRA_STACK_TRACE_HEADER) :
          s[k + j] = WOLLOK_EXTRA_STACK_TRACE_HEADER[j]
MarkerOffsets(s) == {k \in 0..Len(s) : MarkerAt(s, k)}

\* C11: the stack kept by failureDescription is the prefix before the first
\* occurrence of the marker when the marker occurs, and the whole stack,
\* no character dropped, when it does not occur.
C11_StackTrimming ==
    (pc = "described" /\ errorStack # None) =>
        LET st == errorStack[1]
        IN  IF MarkerOffsets(st) # {}
            THEN \E k \in MarkerOffsets(st) :
                    /\ \A j \in MarkerOffsets(st) : k <= j
                    /\ fullStack = [i \in 1..k |-> st[i]]
            ELSE fullStack = st

SomeOptionGiven ==
    \E v \in {options.file, options.describe, options.test} :
        v # None /\ v # Some(<<>>)

\* C12: for parameters that validateParameters accepted, with file,
\* describe or test given and no test flagged only, every target's
\* quote-stripped fully-qualified name contains the dot-join of the given
\* options, also when the filter is the empty string.
C12_OptionsNeverIgnored ==
    (pc = "interpret" /\ NoOnly /\ SomeOptionGiven) =>
        \A k \in 1..Len(targets) :
            Includes(StripQuotes(environment[targets[k]].fullyQualifiedName),
                     ComposedFilter)

====
